---- MODULE Spec2Model ----
(***************************************************************************)
(* Retrieval pipeline of local-brain: the incremental ingest of the live   *)
(* conversation log (_alpha/ingest_conversations.py) and the full rebuild  *)
(* of the ChatGPT-export partition (rag_index.py), writing to one Chroma   *)
(* collection.                                                             *)
(* With them the chunker (rag_index.chunk_text) and the context assembler  *)
(* (llm_rag_cli.retrieve_context), each called on its own over bounded     *)
(* inputs, and one chat turn through each entry point (llm_rag_cli.main,   *)
(* brain_api.run_rag_completion, router.chat,                              *)
(* router.openai_chat_completions), and the export loader                  *)
(* (rag_index.iter_chatgpt_messages) read over bounded export roots.       *)
(***************************************************************************)
EXTENDS Integers, Sequences, FiniteSets, TLC

(***************************************************************************)
(* Bounds of the model.                                                    *)
(***************************************************************************)
\* longest live log considered (lines of data/conversations.jsonl)
MaxLog == 3
\* ingest_conversations.py:131 flushes at 64 documents; the model scales it
INGEST_BATCH == 2
\* rag_index.py:154 flushes at 128 documents; the model scales it
REBUILD_BATCH == 2
\* rag_index.py:85 bounds a chunk by 1000 characters; the model scales it
MAX_CHARS == 3

Max(a, b) == IF a >= b THEN a ELSE b

(***************************************************************************)
(* The live log.  A line is known by what the ingest makes of it:          *)
(*   kept    a JSON object with a non-empty user_prompt or assistant_reply *)
(*   empty   a JSON object whose two fields are empty after strip()        *)
(*   blank   a line that is empty after strip()                            *)
(*   bad     a line json.loads rejects                                     *)
(*   nondict valid JSON on which rec.get(...).strip() raises               *)
(***************************************************************************)
LineKinds == {"kept", "empty", "blank", "bad", "nondict"}

VARIABLES
    log,            \* data/conversations.jsonl, one kind per line
    state_file,     \* data/conversations_ingest_state.json
    store,          \* the Chroma collection: a set of entries
    export,         \* the messages of the ChatGPT export, in loader order
    \* ---- one run of ingest_conversations.main
    ing_pc,
    last_line,
    new_last_line,
    pos,            \* lines read so far by enumerate(f, start=1)
    docs,
    metadatas,
    ids,
    flush,          \* which flush is under way: "batch" or "final"
    \* ---- one run of rag_index.build_index
    rb_pc,
    rb_data,        \* chunks still to come from the loader, in order
    doc_id,
    rb_docs,
    rb_metadatas,
    rb_ids,
    rb_flush,
    \* ---- history kept for the properties
    live0,          \* the live entries when the current ingest run started
    prevScanned,    \* lines the previous ingest run read, -1 if it did not complete
    prevFlushed,    \* lines the previous ingest run flushed in batches before it failed
    deleted,        \* how many entries the delete of the current rebuild removed
    deleteFailed,   \* the delete of the current rebuild raised
    rb_export,      \* the chunks the current rebuild loaded
    \* ---- one call of rag_index.chunk_text
    ck_pc,
    ck_text,
    ck_max_chars,
    ck_chunks,
    \* ---- one call of llm_rag_cli.retrieve_context
    ac_pc,
    ac_results,     \* what collection.query returned: (document, metadata) pairs
    ac_max_chars,
    context_chunks, \* the pieces the loop of retrieve_context selected
    ac_context,     \* what retrieve_context returned
    \* ---- one call of rag_index.iter_chatgpt_messages, read to its end
    ld_pc,
    export_dir,     \* the export root: conversations.json if any, and the other *.json
    ld_out,         \* what the generator yielded, warned about, and whether it raised
    \* ---- one chat turn through an entry point
    chat_pc,
    entry,          \* "cli", "brain_api", "router_chat" or "router_openai"
    chat_context,   \* what retrieve_context returned to the turn
    used_rag_flag,
    final_user_message, \* the prompt sent to the model: bare, or wrapped around the context
    reply,          \* what the caller has received: "none" or "answer"
    warned,         \* log_interaction printed its warning
    logged          \* the record the turn appended: used_rag and sent_prompt

ingVars == <<ing_pc, last_line, new_last_line, pos, docs, metadatas, ids, flush>>
rbVars == <<rb_pc, rb_data, doc_id, rb_docs, rb_metadatas, rb_ids, rb_flush>>
ingHist == <<live0, prevScanned, prevFlushed>>
rbHist == <<deleted, deleteFailed, rb_export>>
chunkVars == <<ck_pc, ck_text, ck_max_chars, ck_chunks>>
ctxVars == <<ac_pc, ac_results, ac_max_chars, context_chunks, ac_context>>
chatVars == <<chat_pc, entry, chat_context, used_rag_flag, final_user_message, reply,
              warned, logged>>
loaderVars == <<ld_pc, export_dir, ld_out>>
callVars == <<chunkVars, ctxVars, chatVars, loaderVars>>
pipeVars == <<state_file, store, export, ingVars, rbVars, ingHist, rbHist>>
vars == <<log, state_file, store, export, ingVars, rbVars, ingHist, rbHist, callVars>>

(***************************************************************************)
(* Text: a sequence of one-character strings.                              *)
(***************************************************************************)
IsSpace(c) == c \in {" ", "\n", "\r", "\t"}

RECURSIVE lstrip(_)
lstrip(s) == IF s = <<>> THEN s
             ELSE IF IsSpace(Head(s)) THEN lstrip(Tail(s)) ELSE s

RECURSIVE rstrip(_)
rstrip(s) == IF s = <<>> THEN s
             ELSE IF IsSpace(s[Len(s)]) THEN rstrip(SubSeq(s, 1, Len(s) - 1)) ELSE s

\* str.strip()
strip(s) == rstrip(lstrip(s))

\* str.replace("\r\n", "\n")
RECURSIVE replace_crlf(_)
replace_crlf(s) ==
    IF s = <<>> THEN s
    ELSE IF Len(s) >= 2 /\ s[1] = "\r" /\ s[2] = "\n"
         THEN <<"\n">> \o replace_crlf(SubSeq(s, 3, Len(s)))
         ELSE <<s[1]>> \o replace_crlf(Tail(s))

\* str.split("\n")
RECURSIVE split_lines(_, _)
split_lines(s, cur) ==
    IF s = <<>> THEN <<cur>>
    ELSE IF Head(s) = "\n" THEN <<cur>> \o split_lines(Tail(s), <<>>)
         ELSE split_lines(Tail(s), Append(cur, Head(s)))

\* "\n".join(lines)
RECURSIVE join_lines(_)
join_lines(lines) ==
    IF lines = <<>> THEN <<>>
    ELSE IF Len(lines) = 1 THEN lines[1]
         ELSE lines[1] \o <<"\n">> \o join_lines(Tail(lines))

\* sum(len(x) for x in current)
RECURSIVE sum_len(_)
sum_len(current) ==
    IF current = <<>> THEN 0 ELSE Len(Head(current)) + sum_len(Tail(current))

\* a loop whose flush test forgets the lines already in the buffer
RECURSIVE chunk_loop_no_sum(_, _, _, _)
chunk_loop_no_sum(lines, current, chunks, max_chars) ==
    IF lines = <<>>
    THEN IF current # <<>> THEN Append(chunks, strip(join_lines(current))) ELSE chunks
    ELSE LET line == Head(lines)
             full == Len(line) + 1 > max_chars /\ current # <<>>
         IN  IF full
             THEN chunk_loop_no_sum(Tail(lines), <<line>>,
                                    Append(chunks, strip(join_lines(current))), max_chars)
             ELSE chunk_loop_no_sum(Tail(lines), Append(current, line), chunks, max_chars)

\* a loop that forgets the line at which it flushed
RECURSIVE chunk_loop_drop(_, _, _, _)
chunk_loop_drop(lines, current, chunks, max_chars) ==
    IF lines = <<>>
    THEN IF current # <<>> THEN Append(chunks, strip(join_lines(current))) ELSE chunks
    ELSE LET line == Head(lines)
             full == sum_len(current) + Len(line) + 1 > max_chars /\ current # <<>>
         IN  IF full
             THEN chunk_loop_drop(Tail(lines), <<>>,
                                  Append(chunks, strip(join_lines(current))), max_chars)
             ELSE chunk_loop_drop(Tail(lines), Append(current, line), chunks, max_chars)

\* the loop of chunk_text over the lines still to come
RECURSIVE chunk_loop(_, _, _, _)
chunk_loop(lines, current, chunks, max_chars) ==
    IF lines = <<>>
    THEN IF current # <<>> THEN Append(chunks, strip(join_lines(current))) ELSE chunks
    ELSE LET line == Head(lines)
             full == sum_len(current) + Len(line) + 1 > max_chars /\ current # <<>>
         IN  IF full
             THEN chunk_loop(Tail(lines), <<line>>,
                             Append(chunks, strip(join_lines(current))), max_chars)
             ELSE chunk_loop(Tail(lines), Append(current, line), chunks, max_chars)

chunk_text(text, max_chars) ==
    LET t == strip(replace_crlf(text))
    IN  IF t = <<>> THEN <<>>
        ELSE chunk_loop(split_lines(t, <<>>), <<>>, <<>>, max_chars)

(***************************************************************************)
(* The export: the texts found in the export files, in file order.  The    *)
(* loader yields the texts that are non-empty after strip().               *)
(***************************************************************************)
Exports ==
    { <<>>,
      << <<"a", "b", "\n", "c", "d">>, <<"a">> >>,
      << <<" ">>, <<"a", "\n", "b">> >> }

RECURSIVE iter_chatgpt_messages(_)
iter_chatgpt_messages(texts) ==
    IF texts = <<>> THEN <<>>
    ELSE LET text == strip(Head(texts))
         IN  (IF text # <<>> THEN <<text>> ELSE <<>>)
             \o iter_chatgpt_messages(Tail(texts))

\* for ... in iter_chatgpt_messages(): for chunk in chunk_text(text)
RECURSIVE all_chunks(_)
all_chunks(messages) ==
    IF messages = <<>> THEN <<>>
    ELSE chunk_text(Head(messages), MAX_CHARS) \o all_chunks(Tail(messages))

(***************************************************************************)
(* The collection and the cursor file.                                     *)
(***************************************************************************)
\* an id counted from 0, as enumerate does by default
LiveId_zero_based(line_no) == <<"live-cli", line_no - 1>>

LiveId(line_no) == <<"live-cli", line_no>>

\* export ids that share the prefix of the live ids
ExportId_live_prefix(n) == <<"live-cli", n>>

ExportId(n) == <<"chatgpt", n>>

\* the composed text of the record at a line of the log
LiveDoc(line_no) == <<"turn", ToString(line_no)>>

LiveMeta == "live_cli"

ExportMeta == "chatgpt_export"

Entry(id, meta, doc) == [id |-> id, source |-> meta, doc |-> doc]

RECURSIVE Entries(_, _, _)
Entries(i, m, d) ==
    IF i = <<>> THEN {}
    ELSE {Entry(Head(i), Head(m), Head(d))} \cup Entries(Tail(i), Tail(m), Tail(d))

StoreIds(st) == {e.id : e \in st}

\* collection.add: a record whose id the collection holds already is ignored
collection_add(st, entries) ==
    st \cup {e \in entries : e.id \notin StoreIds(st)}

\* a delete that forgets its where clause
collection_delete_all(st, src) == {}

\* collection.delete(where={"source": ...})
collection_delete(st, src) == {e \in st : e.source # src}

Live(st) == {e \in st : e.source = LiveMeta}

Bulk(st) == {e \in st : e.source = ExportMeta}

NoFile == [kind |-> "absent", last_line |-> 0]

Corrupt == [kind |-> "corrupt", last_line |-> 0]

load_state(f) == IF f.kind = "ok" THEN f.last_line ELSE 0

\* a save that writes how far the run advanced instead of where it stands
save_state_delta(n) == [kind |-> "ok", last_line |-> n - last_line]

\* a save that takes the length of the log for the cursor
save_state_eof(n) == [kind |-> "ok", last_line |-> Len(log)]

save_state(n) == [kind |-> "ok", last_line |-> n]

\* what the next ingest run will take as its cursor
Persisted == load_state(state_file)

(***************************************************************************)
(* ingest_conversations.py                                                 *)
(***************************************************************************)
\* a skip that is off by one and reads the cursor's own line again
skip_line_before(i, cursor) == i < cursor

\* iter_new_records: "if i <= last_line: continue"
skip_line(i, cursor) == i <= cursor

\* json.loads without its try/except: the unparsed line reaches the loop body
yields_uncaught(kind) == kind # "blank"

\* iter_new_records: a line is yielded unless it is blank or json.loads fails
yields(kind) == kind \notin {"blank", "bad"}

\* main: rec.get("user_prompt", "").strip() and the like go through
record_ok(kind) == kind \in {"kept", "empty"}

\* a loop body without the check for two empty fields
keeps_any(kind) == kind \in {"kept", "empty"}

\* main: "if not user_prompt and not assistant_reply: continue"
keeps(kind) == kind = "kept"

\* a threshold test that lets one more document in
batch_full_late(d) == Len(d) > INGEST_BATCH

\* main: "if len(docs) >= 64"
batch_full(d) == Len(d) >= INGEST_BATCH

\* main: "if new_last_line > last_line"
cursor_moved(new, old) == new > old

Range(s) == {s[k] : k \in DOMAIN s}

\* the lines the ingest run has read beyond its cursor
NewLines == (last_line + 1)..pos

\* the kept lines the run has written in a batch flush and dropped from its buffers
FlushedLines ==
    {n \in NewLines : log[n] = "kept" /\ <<"live-cli", n>> \notin Range(ids)}

\* log_interaction appends the record of one chat turn
LogInteraction ==
    /\ Len(log) < MaxLog
    /\ log' = Append(log, "kept")
    /\ UNCHANGED <<callVars, state_file, store, export, ingVars, rbVars, ingHist, rbHist>>

\* a line that log_interaction did not write (an edit by hand, a torn write)
ForeignLine ==
    /\ Len(log) < MaxLog
    /\ \E kind \in LineKinds \ {"kept"} : log' = Append(log, kind)
    /\ UNCHANGED <<callVars, state_file, store, export, ingVars, rbVars, ingHist, rbHist>>

\* main, up to the for loop
IngestStart ==
    /\ ing_pc \in {"idle", "done", "failed"}
    /\ ing_pc' = "scan"
    /\ last_line' = load_state(state_file)
    /\ new_last_line' = load_state(state_file)
    /\ pos' = 0
    /\ docs' = <<>>
    /\ metadatas' = <<>>
    /\ ids' = <<>>
    /\ flush' = "batch"
    /\ live0' = Live(store)
    /\ prevScanned' = IF ing_pc = "done" THEN pos ELSE -1
    /\ prevFlushed' = IF ing_pc = "failed" THEN FlushedLines ELSE {}
    /\ UNCHANGED <<callVars, log, state_file, store, export, rbVars, rbHist>>

\* one turn of enumerate(f, start=1) and of the body of the for loop
IngestScanLine ==
    /\ ing_pc = "scan"
    /\ pos < Len(log)
    /\ pos' = pos + 1
    /\ LET line_no == pos + 1
           kind == log[line_no]
       IN  IF skip_line(line_no, last_line) \/ ~yields(kind)
           THEN UNCHANGED <<ing_pc, new_last_line, docs, metadatas, ids, flush>>
           ELSE /\ new_last_line' = Max(new_last_line, line_no)
                /\ IF ~record_ok(kind)
                   THEN /\ ing_pc' = "failed"
                        /\ UNCHANGED <<docs, metadatas, ids, flush>>
                   ELSE IF ~keeps(kind)
                   THEN UNCHANGED <<ing_pc, docs, metadatas, ids, flush>>
                   ELSE /\ docs' = Append(docs, LiveDoc(line_no))
                        /\ metadatas' = Append(metadatas, LiveMeta)
                        /\ ids' = Append(ids, LiveId(line_no))
                        /\ flush' = "batch"
                        /\ ing_pc' = IF batch_full(docs') THEN "encode" ELSE "scan"
    /\ UNCHANGED <<callVars, log, state_file, store, export, last_line, rbVars, ingHist, rbHist>>

\* the for loop ends; "if docs:" of the final flush
IngestEndOfLog ==
    /\ ing_pc = "scan"
    /\ pos = Len(log)
    /\ IF docs # <<>>
       THEN ing_pc' = "encode" /\ flush' = "final"
       ELSE ing_pc' = "save" /\ UNCHANGED flush
    /\ UNCHANGED <<callVars, log, state_file, store, export, last_line, new_last_line, pos,
                   docs, metadatas, ids, rbVars, ingHist, rbHist>>

\* model.encode(docs) returns
IngestEncode ==
    /\ ing_pc = "encode"
    /\ ing_pc' = "add"
    /\ UNCHANGED <<callVars, log, state_file, store, export, last_line, new_last_line, pos,
                   docs, metadatas, ids, flush, rbVars, ingHist, rbHist>>

\* model.encode(docs) raises
IngestEncodeFail ==
    /\ ing_pc = "encode"
    /\ ing_pc' = "failed"
    /\ UNCHANGED <<callVars, log, state_file, store, export, last_line, new_last_line, pos,
                   docs, metadatas, ids, flush, rbVars, ingHist, rbHist>>

\* collection.add(...) returns; after the batch flush the buffers are cleared
IngestAdd ==
    /\ ing_pc = "add"
    /\ store' = collection_add(store, Entries(ids, metadatas, docs))
    /\ IF flush = "batch"
       THEN /\ docs' = <<>>
            /\ metadatas' = <<>>
            /\ ids' = <<>>
            /\ ing_pc' = "scan"
       ELSE /\ ing_pc' = "save"
            /\ UNCHANGED <<docs, metadatas, ids>>
    /\ UNCHANGED <<callVars, log, state_file, export, last_line, new_last_line, pos, flush,
                   rbVars, ingHist, rbHist>>

\* an add whose exception is swallowed: the run goes on as if it had written
IngestAddFail_swallowed ==
    /\ ing_pc = "add"
    /\ IF flush = "batch"
       THEN /\ docs' = <<>>
            /\ metadatas' = <<>>
            /\ ids' = <<>>
            /\ ing_pc' = "scan"
       ELSE /\ ing_pc' = "save"
            /\ UNCHANGED <<docs, metadatas, ids>>
    /\ UNCHANGED <<callVars, log, state_file, store, export, last_line, new_last_line, pos,
                   flush, rbVars, ingHist, rbHist>>

\* collection.add(...) raises and adds nothing
IngestAddFail ==
    /\ ing_pc = "add"
    /\ ing_pc' = "failed"
    /\ UNCHANGED <<callVars, log, state_file, store, export, last_line, new_last_line, pos,
                   docs, metadatas, ids, flush, rbVars, ingHist, rbHist>>

\* "Update ingest state"
IngestSave ==
    /\ ing_pc = "save"
    /\ ing_pc' = "done"
    /\ IF cursor_moved(new_last_line, last_line)
       THEN state_file' = save_state(new_last_line)
       ELSE UNCHANGED state_file
    /\ UNCHANGED <<callVars, log, store, export, last_line, new_last_line, pos, docs,
                   metadatas, ids, flush, rbVars, ingHist, rbHist>>

\* write_text opens the file for writing, which empties it, and then fails
IngestSaveFail ==
    /\ ing_pc = "save"
    /\ cursor_moved(new_last_line, last_line)
    /\ ing_pc' = "failed"
    /\ state_file' = Corrupt
    /\ UNCHANGED <<callVars, log, store, export, last_line, new_last_line, pos, docs,
                   metadatas, ids, flush, rbVars, ingHist, rbHist>>

\* the process is killed between two steps
IngestCrash ==
    /\ ing_pc \in {"scan", "encode", "add", "save"}
    /\ ing_pc' = "failed"
    /\ UNCHANGED <<callVars, log, state_file, store, export, last_line, new_last_line, pos,
                   docs, metadatas, ids, flush, rbVars, ingHist, rbHist>>

IngestStep ==
    \/ IngestStart
    \/ IngestScanLine
    \/ IngestEndOfLog
    \/ IngestEncode
    \/ IngestEncodeFail
    \/ IngestAdd
    \/ IngestAddFail
    \/ IngestSave
    \/ IngestSaveFail
    \/ IngestCrash

InitPipeline ==
    /\ log = <<>>
    /\ state_file = NoFile
    /\ store = {}
    /\ export = <<>>
    /\ ing_pc = "idle"
    /\ last_line = 0
    /\ new_last_line = 0
    /\ pos = 0
    /\ docs = <<>>
    /\ metadatas = <<>>
    /\ ids = <<>>
    /\ flush = "batch"
    /\ rb_pc = "idle"
    /\ rb_data = <<>>
    /\ doc_id = 0
    /\ rb_docs = <<>>
    /\ rb_metadatas = <<>>
    /\ rb_ids = <<>>
    /\ rb_flush = "batch"
    /\ live0 = {}
    /\ prevScanned = -1
    /\ prevFlushed = {}
    /\ deleted = 0
    /\ deleteFailed = FALSE
    /\ rb_export = <<>>

\* no call of chunk_text under way
InitNoChunk ==
    /\ ck_pc = "idle"
    /\ ck_text = <<>>
    /\ ck_max_chars = 1
    /\ ck_chunks = <<>>

\* no call of retrieve_context under way
InitNoContext ==
    /\ ac_pc = "idle"
    /\ ac_results = <<>>
    /\ ac_max_chars = 0
    /\ context_chunks = <<>>
    /\ ac_context = <<>>

\* no chat turn under way
InitNoChat ==
    /\ chat_pc = "idle"
    /\ entry = "cli"
    /\ chat_context = <<>>
    /\ used_rag_flag = FALSE
    /\ final_user_message = [wrapped |-> FALSE, context |-> <<>>]
    /\ reply = "none"
    /\ warned = FALSE
    /\ logged = <<>>

\* no reading of an export root under way
InitNoLoader ==
    /\ ld_pc = "idle"
    /\ export_dir = [conversations_file |-> <<>>, glob |-> <<>>]
    /\ ld_out = [yielded |-> <<>>, warned |-> 0, raised |-> FALSE]

Init == InitPipeline /\ InitNoChunk /\ InitNoContext /\ InitNoChat /\ InitNoLoader

NextIngest == LogInteraction \/ ForeignLine \/ IngestStep

SpecIngest == Init /\ [][NextIngest]_vars

(***************************************************************************)
(* rag_index.py                                                            *)
(***************************************************************************)
\* build_index: "if len(docs) >= 128"
rb_batch_full(d) == Len(d) >= REBUILD_BATCH

\* a new export is dropped into the export directory
ExportChange ==
    /\ \E e \in Exports \ {export} : export' = e
    /\ UNCHANGED <<callVars, log, state_file, store, ingVars, rbVars, ingHist, rbHist>>

\* build_index, up to the delete
RebuildStart ==
    /\ rb_pc \in {"idle", "done", "failed"}
    /\ rb_pc' = "delete"
    /\ rb_data' = <<>>
    /\ doc_id' = 0
    /\ rb_docs' = <<>>
    /\ rb_metadatas' = <<>>
    /\ rb_ids' = <<>>
    /\ rb_flush' = "batch"
    /\ deleted' = 0
    /\ deleteFailed' = FALSE
    /\ rb_export' = <<>>
    /\ UNCHANGED <<callVars, log, state_file, store, export, ingVars, ingHist>>

\* collection.delete(where={"source": "chatgpt_export"}) returns
RebuildDelete ==
    /\ rb_pc = "delete"
    /\ rb_pc' = "load"
    /\ store' = collection_delete(store, ExportMeta)
    /\ deleted' = Cardinality(store \ store')
    /\ UNCHANGED <<callVars, log, state_file, export, ingVars, rb_data, doc_id, rb_docs,
                   rb_metadatas, rb_ids, rb_flush, ingHist, deleteFailed, rb_export>>

\* a delete whose exception is let out of build_index
RebuildDeleteFail_raises ==
    /\ rb_pc = "delete"
    /\ rb_pc' = "failed"
    /\ deleteFailed' = TRUE
    /\ UNCHANGED <<callVars, log, state_file, store, export, ingVars, rb_data, doc_id, rb_docs,
                   rb_metadatas, rb_ids, rb_flush, ingHist, deleted, rb_export>>

\* collection.delete raises: "except Exception: pass"
RebuildDeleteFail ==
    /\ rb_pc = "delete"
    /\ rb_pc' = "load"
    /\ deleteFailed' = TRUE
    /\ UNCHANGED <<callVars, log, state_file, store, export, ingVars, rb_data, doc_id, rb_docs,
                   rb_metadatas, rb_ids, rb_flush, ingHist, deleted, rb_export>>

\* the loader reads the export; the chunks it will hand over, in order
RebuildLoad ==
    /\ rb_pc = "load"
    /\ rb_pc' = "chunk"
    /\ rb_data' = all_chunks(iter_chatgpt_messages(export))
    /\ rb_export' = rb_data'
    /\ UNCHANGED <<callVars, log, state_file, store, export, ingVars, doc_id, rb_docs,
                   rb_metadatas, rb_ids, rb_flush, ingHist, deleted, deleteFailed>>

\* one turn of "for chunk in chunk_text(text)"
RebuildChunk ==
    /\ rb_pc = "chunk"
    /\ rb_data # <<>>
    /\ rb_data' = Tail(rb_data)
    /\ rb_docs' = Append(rb_docs, Head(rb_data))
    /\ rb_metadatas' = Append(rb_metadatas, ExportMeta)
    /\ rb_ids' = Append(rb_ids, ExportId(doc_id))
    /\ doc_id' = doc_id + 1
    /\ rb_flush' = "batch"
    /\ rb_pc' = IF rb_batch_full(rb_docs') THEN "encode" ELSE "chunk"
    /\ UNCHANGED <<callVars, log, state_file, store, export, ingVars, ingHist, rbHist>>

\* the loops end; "if docs:" of the final flush
RebuildEndOfExport ==
    /\ rb_pc = "chunk"
    /\ rb_data = <<>>
    /\ IF rb_docs # <<>>
       THEN rb_pc' = "encode" /\ rb_flush' = "final"
       ELSE rb_pc' = "done" /\ UNCHANGED rb_flush
    /\ UNCHANGED <<callVars, log, state_file, store, export, ingVars, rb_data, doc_id, rb_docs,
                   rb_metadatas, rb_ids, ingHist, rbHist>>

\* model.encode(docs) returns
RebuildEncode ==
    /\ rb_pc = "encode"
    /\ rb_pc' = "add"
    /\ UNCHANGED <<callVars, log, state_file, store, export, ingVars, rb_data, doc_id, rb_docs,
                   rb_metadatas, rb_ids, rb_flush, ingHist, rbHist>>

\* model.encode(docs) raises
RebuildEncodeFail ==
    /\ rb_pc = "encode"
    /\ rb_pc' = "failed"
    /\ UNCHANGED <<callVars, log, state_file, store, export, ingVars, rb_data, doc_id, rb_docs,
                   rb_metadatas, rb_ids, rb_flush, ingHist, rbHist>>

\* collection.add(...) returns; after the batch flush the buffers are cleared
RebuildAdd ==
    /\ rb_pc = "add"
    /\ store' = collection_add(store, Entries(rb_ids, rb_metadatas, rb_docs))
    /\ IF rb_flush = "batch"
       THEN /\ rb_docs' = <<>>
            /\ rb_metadatas' = <<>>
            /\ rb_ids' = <<>>
            /\ rb_pc' = "chunk"
       ELSE /\ rb_pc' = "done"
            /\ UNCHANGED <<rb_docs, rb_metadatas, rb_ids>>
    /\ UNCHANGED <<callVars, log, state_file, export, ingVars, rb_data, doc_id, rb_flush,
                   ingHist, rbHist>>

\* a failed add that is caught: the run goes on as after an add
RebuildAddFail_swallowed ==
    /\ rb_pc = "add"
    /\ IF rb_flush = "batch"
       THEN /\ rb_docs' = <<>>
            /\ rb_metadatas' = <<>>
            /\ rb_ids' = <<>>
            /\ rb_pc' = "chunk"
       ELSE /\ rb_pc' = "done"
            /\ UNCHANGED <<rb_docs, rb_metadatas, rb_ids>>
    /\ UNCHANGED <<callVars, log, state_file, store, export, ingVars, rb_data, doc_id,
                   rb_flush, ingHist, rbHist>>

\* collection.add(...) raises and adds nothing
RebuildAddFail ==
    /\ rb_pc = "add"
    /\ rb_pc' = "failed"
    /\ UNCHANGED <<callVars, log, state_file, store, export, ingVars, rb_data, doc_id, rb_docs,
                   rb_metadatas, rb_ids, rb_flush, ingHist, rbHist>>

\* the process is killed between two steps
RebuildCrash ==
    /\ rb_pc \in {"delete", "load", "chunk", "encode", "add"}
    /\ rb_pc' = "failed"
    /\ UNCHANGED <<callVars, log, state_file, store, export, ingVars, rb_data, doc_id, rb_docs,
                   rb_metadatas, rb_ids, rb_flush, ingHist, rbHist>>

RebuildStep ==
    \/ RebuildStart
    \/ RebuildDelete
    \/ RebuildDeleteFail
    \/ RebuildLoad
    \/ RebuildChunk
    \/ RebuildEndOfExport
    \/ RebuildEncode
    \/ RebuildEncodeFail
    \/ RebuildAdd
    \/ RebuildAddFail
    \/ RebuildCrash

NextRebuild == ExportChange \/ RebuildStep

SpecRebuild == Init /\ [][NextRebuild]_vars

Next == LogInteraction \/ IngestStep \/ ExportChange \/ RebuildStep

Spec == Init /\ [][Next]_vars

(***************************************************************************)
(* rag_index.chunk_text called on its own: the text and the bound are      *)
(* drawn from all texts of at most MaxText characters over Alphabet and    *)
(* all bounds up to MaxBound.                                              *)
(***************************************************************************)
MaxText == 6
MaxBound == 3
Alphabet == {"a", " ", "\n", "\r"}
Texts == UNION {[1..n -> Alphabet] : n \in 0..MaxText}

InitChunk ==
    /\ InitPipeline /\ InitNoContext /\ InitNoChat /\ InitNoLoader
    /\ ck_pc = "call"
    /\ ck_text \in Texts
    /\ ck_max_chars \in 1..MaxBound
    /\ ck_chunks = <<>>

ChunkCall ==
    /\ ck_pc = "call"
    /\ ck_chunks' = chunk_text(ck_text, ck_max_chars)
    /\ ck_pc' = "done"
    /\ UNCHANGED <<log, pipeVars, ctxVars, chatVars, loaderVars, ck_text, ck_max_chars>>

NextChunk == ChunkCall

SpecChunk == InitChunk /\ [][NextChunk]_vars

(***************************************************************************)
(* llm_rag_cli.retrieve_context called on its own.  What collection.query  *)
(* returned is a sequence of at most MaxResults (document, metadata)       *)
(* pairs, nearest first; the budget is any number up to MaxBudget.         *)
(***************************************************************************)
MaxResults == 3
MaxBudget == 45

\* dict.get(key, default)
meta_get(meta, key, default) == IF key \in DOMAIN meta THEN meta[key] ELSE default

\* f"[{meta.get('conversation_title', 'unknown')}] ({meta.get('role')}):\n{doc}\n"
format_piece(doc, meta) ==
    <<"[">> \o meta_get(meta, "conversation_title", <<"u", "n", "k", "n", "o", "w", "n">>)
            \o <<"]", " ", "(">> \o meta_get(meta, "role", <<"N", "o", "n", "e">>)
            \o <<")", ":", "\n">> \o doc \o <<"\n">>

header ==
    <<"T", "h", "e", " ", "f", "o", "l", "l", "o", "w", "i", "n", "g", " ",
      "c", "o", "n", "t", "e", "x", "t", " ", "i", "s", " ", "r", "e", "t",
      "r", "i", "e", "v", "e", "d", " ", "f", "r", "o", "m", " ", "m", "y",
      " ", "p", "a", "s", "t", " ", "C", "h", "a", "t", "G", "P", "T", " ",
      "c", "o", "n", "v", "e", "r", "s", "a", "t", "i", "o", "n", "s", ".",
      " ", "U", "s", "e", " ", "i", "t", " ", "t", "o", " ", "g", "r", "o",
      "u", "n", "d", " ", "y", "o", "u", "r", " ", "a", "n", "s", "w", "e",
      "r", ",", " ", "b", "u", "t", " ", "d", "o", " ", "N", "O", "T", " ",
      "r", "e", "p", "e", "a", "t", " ", "i", "t", " ", "v", "e", "r", "b",
      "a", "t", "i", "m", " ", "u", "n", "l", "e", "s", "s", " ", "n", "e",
      "c", "e", "s", "s", "a", "r", "y", ".", "\n", "\n">>

\* "\n\n".join(context_chunks)
RECURSIVE join_blank(_)
join_blank(pieces) ==
    IF pieces = <<>> THEN <<>>
    ELSE IF Len(pieces) = 1 THEN pieces[1]
         ELSE pieces[1] \o <<"\n", "\n">> \o join_blank(Tail(pieces))

\* a loop that passes over a piece that does not fit and tries the next one
RECURSIVE context_loop_skip(_, _, _, _)
context_loop_skip(results, chunks, total_chars, max_chars) ==
    IF results = <<>> THEN chunks
    ELSE LET piece == format_piece(Head(results).doc, Head(results).meta)
         IN  IF total_chars + Len(piece) > max_chars
             THEN context_loop_skip(Tail(results), chunks, total_chars, max_chars)
             ELSE context_loop_skip(Tail(results), Append(chunks, piece),
                                    total_chars + Len(piece), max_chars)

\* a loop that forgets to add to its running total
RECURSIVE context_loop_no_total(_, _, _, _)
context_loop_no_total(results, chunks, total_chars, max_chars) ==
    IF results = <<>> THEN chunks
    ELSE LET piece == format_piece(Head(results).doc, Head(results).meta)
         IN  IF total_chars + Len(piece) > max_chars
             THEN chunks
             ELSE context_loop_no_total(Tail(results), Append(chunks, piece),
                                        total_chars, max_chars)

\* the loop of retrieve_context over zip(docs, metas), with its break
RECURSIVE context_loop(_, _, _, _)
context_loop(results, chunks, total_chars, max_chars) ==
    IF results = <<>> THEN chunks
    ELSE LET piece == format_piece(Head(results).doc, Head(results).meta)
         IN  IF total_chars + Len(piece) > max_chars
             THEN chunks
             ELSE context_loop(Tail(results), Append(chunks, piece),
                               total_chars + Len(piece), max_chars)

\* a return that puts the header before no pieces as well
context_block_always(chunks) == header \o join_blank(chunks)

\* the return of retrieve_context
context_block(chunks) ==
    IF chunks = <<>> THEN <<>> ELSE header \o join_blank(chunks)

Documents == { <<"a">>, <<"a", "\n", "b", "c">> }
Metadatas ==
    { [conversation_title |-> <<"t">>, role |-> <<"u", "s", "e", "r">>],
      [role |-> <<"u", "s", "e", "r">>] }
Results ==
    UNION {[1..n -> [doc : Documents, meta : Metadatas]] : n \in 0..MaxResults}

InitContext ==
    /\ InitPipeline /\ InitNoChunk /\ InitNoChat /\ InitNoLoader
    /\ ac_pc = "call"
    /\ ac_results \in Results
    /\ ac_max_chars \in 0..MaxBudget
    /\ context_chunks = <<>>
    /\ ac_context = <<>>

ContextCall ==
    /\ ac_pc = "call"
    /\ context_chunks' = context_loop(ac_results, <<>>, 0, ac_max_chars)
    /\ ac_context' = context_block(context_chunks')
    /\ ac_pc' = "done"
    /\ UNCHANGED <<log, pipeVars, chunkVars, chatVars, loaderVars, ac_results, ac_max_chars>>

NextContext == ContextCall

SpecContext == InitContext /\ [][NextContext]_vars

(***************************************************************************)
(* One chat turn through an entry point: llm_rag_cli.main ("cli"),         *)
(* brain_api.run_rag_completion ("brain_api"), router.chat ("router_chat") *)
(* and router.openai_chat_completions ("router_openai").  The turn         *)
(* retrieves context, calls the model, logs the interaction and hands the  *)
(* reply to the caller; the CLI prints the reply before it logs.           *)
(***************************************************************************)
EntryPoints == {"cli", "brain_api", "router_chat", "router_openai"}

\* the entry points that can be asked to skip retrieval
\* (--no-rag, use_rag = false, no collection)
RagOptional == {"cli", "brain_api", "router_chat"}

\* a request arrives; the locals of the turn are set
ChatRequest ==
    /\ chat_pc \in {"idle", "replied", "aborted"}
    /\ \E e \in EntryPoints, rag \in BOOLEAN :
          /\ rag \/ e \in RagOptional
          /\ entry' = e
          /\ chat_pc' = IF rag THEN "retrieve" ELSE "call"
    /\ chat_context' = <<>>
    /\ used_rag_flag' = FALSE
    /\ final_user_message' = [wrapped |-> FALSE, context |-> <<>>]
    /\ reply' = "none"
    /\ warned' = FALSE
    /\ logged' = <<>>
    /\ UNCHANGED <<log, pipeVars, loaderVars, chunkVars, ctxVars>>

\* a turn that counts the retrieval, not its result, as use of RAG
ChatRetrieve_flag_always ==
    /\ chat_pc = "retrieve"
    /\ \E r \in Results, m \in 0..MaxBudget :
          chat_context' = context_block(context_loop(r, <<>>, 0, m))
    /\ used_rag_flag' = TRUE
    /\ IF chat_context' # <<>>
       THEN final_user_message' = [wrapped |-> TRUE, context |-> chat_context']
       ELSE UNCHANGED final_user_message
    /\ chat_pc' = "call"
    /\ UNCHANGED <<log, pipeVars, loaderVars, chunkVars, ctxVars, entry, reply, warned, logged>>

\* context = retrieve_context(...); "if context:" wraps the prompt around it
ChatRetrieve ==
    /\ chat_pc = "retrieve"
    /\ \E r \in Results, m \in 0..MaxBudget :
          chat_context' = context_block(context_loop(r, <<>>, 0, m))
    /\ IF chat_context' # <<>>
       THEN /\ used_rag_flag' = TRUE
            /\ final_user_message' = [wrapped |-> TRUE, context |-> chat_context']
       ELSE UNCHANGED <<used_rag_flag, final_user_message>>
    /\ chat_pc' = "call"
    /\ UNCHANGED <<log, pipeVars, loaderVars, chunkVars, ctxVars, entry, reply, warned, logged>>

\* call_lm_studio returns; the CLI prints the answer at once
ChatCall ==
    /\ chat_pc = "call"
    /\ chat_pc' = "log"
    /\ reply' = IF entry = "cli" THEN "answer" ELSE reply
    /\ UNCHANGED <<log, pipeVars, loaderVars, chunkVars, ctxVars, entry, chat_context,
                   used_rag_flag, final_user_message, warned, logged>>

\* call_lm_studio raises (connection error, timeout, HTTP error status)
ChatCallFail ==
    /\ chat_pc = "call"
    /\ chat_pc' = "aborted"
    /\ UNCHANGED <<log, pipeVars, loaderVars, chunkVars, ctxVars, entry, chat_context,
                   used_rag_flag, final_user_message, reply, warned, logged>>

\* log_interaction appends the record
ChatLog ==
    /\ chat_pc = "log"
    /\ Len(log) < MaxLog
    /\ log' = Append(log, "kept")
    /\ logged' = <<[used_rag |-> used_rag_flag, sent_prompt |-> final_user_message]>>
    /\ chat_pc' = "return"
    /\ UNCHANGED <<pipeVars, loaderVars, chunkVars, ctxVars, entry, chat_context,
                   used_rag_flag, final_user_message, reply, warned>>

\* a log write that fails and lets its exception out
ChatLogFail_raises ==
    /\ chat_pc = "log"
    /\ chat_pc' = "aborted"
    /\ UNCHANGED <<log, pipeVars, loaderVars, chunkVars, ctxVars, entry, chat_context,
                   used_rag_flag, final_user_message, reply, warned, logged>>

\* the mkdir, the open or the write raises: "except Exception" prints a
\* warning; the file is as it was, or ends in a line cut short
ChatLogFail ==
    /\ chat_pc = "log"
    /\ \/ log' = log
       \/ Len(log) < MaxLog /\ log' = Append(log, "bad")
    /\ warned' = TRUE
    /\ chat_pc' = "return"
    /\ UNCHANGED <<pipeVars, loaderVars, chunkVars, ctxVars, entry, chat_context,
                   used_rag_flag, final_user_message, reply, logged>>

\* the turn ends: the servers return the response, the CLI leaves main
ChatReturn ==
    /\ chat_pc = "return"
    /\ reply' = "answer"
    /\ chat_pc' = "replied"
    /\ UNCHANGED <<log, pipeVars, loaderVars, chunkVars, ctxVars, entry, chat_context,
                   used_rag_flag, final_user_message, warned, logged>>

NextChat ==
    \/ ChatRequest
    \/ ChatRetrieve
    \/ ChatCall
    \/ ChatCallFail
    \/ ChatLog
    \/ ChatLogFail
    \/ ChatReturn

SpecChat == Init /\ [][NextChat]_vars

(***************************************************************************)
(* rag_index.iter_chatgpt_messages read to its end on its own.  A JSON     *)
(* value is known by what the loader asks of it: "dict", "list", "other"   *)
(* (any value of another type), "missing" (no such key) and, for a         *)
(* message, "none" (absent or falsy).  A file that json.load rejects is    *)
(* "invalid".                                                              *)
(***************************************************************************)
MaxFiles == 2

\* a node whose message has the given parts
Node(ps) == [node |-> "dict", message |-> "dict", author |-> "dict",
             content |-> "dict", parts |-> ps]
StrPart(t) == [str |-> TRUE, text |-> t]
NodeOfKind(n, m, a, c) == [node |-> n, message |-> m, author |-> a,
                           content |-> c, parts |-> <<>>]

\* {"title": ..., "mapping": {...}}
MappingFile(nodes) == [json |-> "dict", mapping |-> "dict", nodes |-> nodes]
\* [conversation, ...]
ListFile(convs) == [json |-> "list", convs |-> convs]
Conv(nodes) == [conv |-> "dict", mapping |-> "dict", nodes |-> nodes]

ExportFiles ==
    { [json |-> "invalid"],
      [json |-> "other"],
      MappingFile(<<Node(<<StrPart(<<"a">>)>>)>>),
      ListFile(<<Conv(<<NodeOfKind("dict", "none", "missing", "missing"),
                        Node(<<StrPart(<<" ">>)>>),
                        Node(<<[str |-> FALSE, text |-> <<>>], StrPart(<<"b">>)>>)>>)>>),
      MappingFile(<<Node(<<StrPart(<<"c">>)>>), NodeOfKind("other", "none", "missing", "missing")>>),
      MappingFile(<<NodeOfKind("dict", "other", "missing", "missing")>>),
      MappingFile(<<NodeOfKind("dict", "dict", "missing", "missing")>>),
      [json |-> "dict", mapping |-> "other", nodes |-> <<>>],
      ListFile(<<Conv(<<NodeOfKind("dict", "dict", "other", "dict")>>)>>),
      ListFile(<<Conv(<<NodeOfKind("dict", "dict", "dict", "other")>>)>>),
      ListFile(<<[conv |-> "other", mapping |-> "missing", nodes |-> <<>>]>>),
      ListFile(<<[conv |-> "dict", mapping |-> "other", nodes |-> <<>>],
                 Conv(<<Node(<<StrPart(<<"d">>)>>)>>)>>) }

ExportDirs ==
    [conversations_file : {<<>>} \cup {<<f>> : f \in ExportFiles},
     glob : UNION {[1..n -> ExportFiles] : n \in 0..MaxFiles}]

\* "if conversations_file.exists(): ... else: files.extend(glob)"
select_files(dir) ==
    IF dir.conversations_file # <<>> THEN dir.conversations_file ELSE dir.glob

\* "\n\n".join(p for p in content_parts if isinstance(p, str)).strip()
RECURSIVE join_parts(_)
join_parts(ps) ==
    IF ps = <<>> THEN <<>>
    ELSE IF ~Head(ps).str THEN join_parts(Tail(ps))
    ELSE LET rest == join_parts(Tail(ps))
         IN  IF \A i \in 1..Len(Tail(ps)) : ~Tail(ps)[i].str
             THEN Head(ps).text
             ELSE Head(ps).text \o <<"\n", "\n">> \o rest

\* node.get, msg.get(...).get and msg.get(...).get raise on a value without get
node_raises(n) ==
    \/ n.node # "dict"
    \/ n.message = "other"
    \/ n.message = "dict" /\ (n.author = "other" \/ n.content = "other")

\* the body of "for node in mapping" for a node that does not raise
node_yield(n) ==
    IF n.message = "none" THEN <<>>
    ELSE LET text == strip(join_parts(n.parts))
         IN  IF text # <<>> THEN <<text>> ELSE <<>>

\* "for node in mapping": what is yielded, up to a node that raises
RECURSIVE iter_nodes(_, _)
iter_nodes(nodes, out) ==
    IF nodes = <<>> \/ out.raised THEN out
    ELSE IF node_raises(Head(nodes)) THEN [out EXCEPT !.raised = TRUE]
    ELSE iter_nodes(Tail(nodes),
                    [out EXCEPT !.yielded = out.yielded \o node_yield(Head(nodes))])

\* "for conv in data"
RECURSIVE iter_convs(_, _)
iter_convs(convs, out) ==
    IF convs = <<>> \/ out.raised THEN out
    ELSE LET conv == Head(convs)
         IN  IF conv.conv # "dict" \/ conv.mapping = "other"
             THEN [out EXCEPT !.raised = TRUE]
             ELSE iter_convs(Tail(convs), iter_nodes(conv.nodes, out))

\* "for path in files"
RECURSIVE iter_files(_, _)
iter_files(files, out) ==
    IF files = <<>> \/ out.raised THEN out
    ELSE LET data == Head(files)
         IN  IF data.json = "invalid"
             THEN iter_files(Tail(files), [out EXCEPT !.warned = out.warned + 1])
             ELSE IF data.json = "dict"
             THEN IF data.mapping # "dict"
                  THEN [out EXCEPT !.raised = TRUE]
                  ELSE iter_files(Tail(files), iter_nodes(data.nodes, out))
             ELSE IF data.json = "list"
             THEN iter_files(Tail(files), iter_convs(data.convs, out))
             ELSE iter_files(Tail(files), [out EXCEPT !.warned = out.warned + 1])

InitLoader ==
    /\ InitPipeline /\ InitNoChunk /\ InitNoContext /\ InitNoChat
    /\ ld_pc = "call"
    /\ export_dir \in ExportDirs
    /\ ld_out = [yielded |-> <<>>, warned |-> 0, raised |-> FALSE]

LoaderRun ==
    /\ ld_pc = "call"
    /\ ld_out' = iter_files(select_files(export_dir), ld_out)
    /\ ld_pc' = "done"
    /\ UNCHANGED <<log, pipeVars, chunkVars, ctxVars, chatVars, export_dir>>

NextLoader == LoaderRun

SpecLoader == InitLoader /\ [][NextLoader]_vars

(***************************************************************************)
(* Properties.                                                             *)
(***************************************************************************)
LiveEntry(n) == [id |-> <<"live-cli", n>>, source |-> "live_cli", doc |-> LiveDoc(n)]

BulkEntry(k, chunk) == [id |-> <<"chatgpt", k>>, source |-> "chatgpt_export", doc |-> chunk]

\* C1: over rebuilds and ingest runs, failed ones included, no step removes
\* or alters an entry whose source is the live tag: the live partition only
\* grows.
C1_LivePartitionOnlyGrows == [][Live(store) \subseteq Live(store')]_vars

\* a rebuild has deleted export entries from a collection that holds live
\* entries, and the live entries are still there
C1_Witness ==
    /\ rb_pc = "load"
    /\ deleted > 0
    /\ Bulk(store) = {}
    /\ ing_pc = "done"
    /\ Live(store) # {}
    /\ Live(store) = live0 \cup {LiveEntry(n) : n \in NewLines}

\* C2: the persisted cursor never stands at or beyond a kept line whose
\* entry is not in the collection, whatever failed or crashed before.
C2_CursorBehindConfirmedWrites ==
    \A n \in 1..Len(log) :
        (n <= Persisted /\ log[n] = "kept") => LiveEntry(n) \in store

\* a run failed with a kept line still unwritten, after an earlier run had
\* moved the cursor over a kept line
C2_Witness ==
    /\ ing_pc = "failed"
    /\ \E n \in 1..Len(log) : n <= Persisted /\ log[n] = "kept"
    /\ \E m \in 1..Len(log) :
           m > Persisted /\ log[m] = "kept" /\ LiveEntry(m) \notin store

\* C3: a run that follows a failed run does not embed or add again a line
\* that the failed run had written in a batch flush (the cursor file being
\* intact).
C3_NoLineEmbeddedOrAddedTwice ==
    (ing_pc \in {"encode", "add"} /\ state_file.kind # "corrupt") =>
        \A id \in Range(ids) : id[2] \notin prevFlushed

\* C4: after a batch flush and before the next batch, the persisted cursor
\* is the highest line of the batches written so far.
C4_CursorCommittedPerBatch ==
    (ing_pc = "scan" /\ FlushedLines # {}) =>
        /\ \A n \in FlushedLines : Persisted >= n
        /\ Persisted \in FlushedLines

\* C5: a run that completes leaves a cursor that is not lower than the one
\* it started from.
C5_CursorMonotonic == ing_pc = "done" => Persisted >= last_line

\* a second run completed and moved the cursor further
C5_Witness == ing_pc = "done" /\ last_line > 0 /\ Persisted > last_line

\* C6: a run made when no line was appended since the previous complete run
\* read the log makes no embedding call and no add, leaves the cursor and
\* the entries as they were, and no run embeds a line at or before its cursor.
C6_Idempotent ==
    /\ (ing_pc \in {"scan", "encode", "add", "save", "done"} /\ prevScanned = Len(log)) =>
           /\ ing_pc \notin {"encode", "add"}
           /\ docs = <<>>
           /\ Live(store) = live0
           /\ Persisted = last_line
    /\ \A id \in Range(ids) : id[2] > last_line

\* a run completed over a log with entries that the previous run had read whole
C6_Witness ==
    /\ ing_pc = "done"
    /\ prevScanned = Len(log)
    /\ last_line > 0
    /\ live0 # {}

\* the lines read beyond the cursor are all kept records never written before
AllNewValid ==
    \A n \in NewLines : log[n] = "kept" /\ <<"live-cli", n>> \notin StoreIds(live0)

\* C7: with cursor c and m valid records appended as lines c+1..c+m, a run
\* adds exactly the m entries live-<n> of those lines and moves the cursor
\* to c+m.
C7_AppendedRecordsIngested ==
    (ing_pc = "done" /\ AllNewValid) =>
        /\ Live(store) = live0 \cup {LiveEntry(n) : n \in NewLines}
        /\ Cardinality(Live(store)) = Cardinality(live0) + (pos - last_line)
        /\ Persisted = pos

\* a run over a cursor of at least 1 ingested at least two appended records
C7_Witness ==
    /\ ing_pc = "done"
    /\ AllNewValid
    /\ last_line >= 1
    /\ pos >= last_line + 2
    /\ live0 # {}

\* the kept lines read by the current run after an unparseable line
KeptAfterBad ==
    {n \in NewLines : log[n] = "kept" /\ \E b \in NewLines : b < n /\ log[b] = "bad"}

\* C8: reading a line that is not valid JSON does not end the run, and a
\* run that completes has written every kept line that follows such a line.
C8_BadJsonSkipped ==
    /\ [][(ing_pc = "scan" /\ pos < Len(log) /\ pos' = pos + 1
             /\ ~skip_line(pos + 1, last_line) /\ log[pos + 1] = "bad")
          => ing_pc' = "scan"]_vars
    /\ [](ing_pc = "done" => \A n \in KeptAfterBad : LiveEntry(n) \in store)

\* a run completed that read an unparseable line and a kept line after it
C8_Witness ==
    /\ ing_pc = "done"
    /\ KeptAfterBad # {}
    /\ \A n \in KeptAfterBad : LiveEntry(n) \in store

\* C9: a run that completes leaves the cursor at the last line it read,
\* whatever the lines were.
C9_CursorAtLastLineScanned == ing_pc = "done" => Persisted = pos

\* C10: after a rebuild that returns, the export partition is exactly the
\* chunks the rebuild loaded, with ids 0..N-1 in loader-then-chunk order.
C10_PartitionIsCurrentExport ==
    rb_pc = "done" =>
        Bulk(store) = {BulkEntry(k - 1, rb_export[k]) : k \in 1..Len(rb_export)}

(***************************************************************************)
(* C11: over any sequence of rebuilds and ingest runs, failed and rerun    *)
(* ones included, collection.add is never called with an id that an entry  *)
(* of the collection already carries, and no two entries share an id.      *)
(* The state before an add has pc "add" and the ids of the call in ids     *)
(* (ingest) or rb_ids (rebuild).                                           *)
(***************************************************************************)
C11_AddNeverMeetsExistingId ==
    /\ ing_pc = "add" => \A i \in 1..Len(ids) : ids[i] \notin StoreIds(store)
    /\ rb_pc = "add" => \A i \in 1..Len(rb_ids) : rb_ids[i] \notin StoreIds(store)
    /\ \A e1, e2 \in store : e1.id = e2.id => e1 = e2

\* the chunks cs are found in t in order, with nothing but whitespace between
\* one and the next and after the last
RECURSIVE SpacedOut(_, _)
SpacedOut(cs, t) ==
    LET u == lstrip(t)
    IN  IF cs = <<>> THEN u = <<>>
        ELSE LET c == Head(cs)
             IN  /\ Len(c) <= Len(u)
                 /\ SubSeq(u, 1, Len(c)) = c
                 /\ SpacedOut(Tail(cs), SubSeq(u, Len(c) + 1, Len(u)))

(***************************************************************************)
(* C12 as stated: joining the chunks of chunk_text(T, B) with newlines and *)
(* trimming the result gives back T with CRLF turned into LF and its outer *)
(* whitespace trimmed, so nothing is lost at a chunk boundary.             *)
(***************************************************************************)
C12_ChunksRejoinToText ==
    ck_pc = "done" =>
        strip(join_lines(ck_chunks)) = strip(replace_crlf(ck_text))

(***************************************************************************)
(* C12 amended: the chunks of chunk_text(T, B) are, in order, what is left *)
(* of the normalized T when a run of whitespace (blank lines included) is  *)
(* cut out at each chunk boundary: every chunk is a piece of the           *)
(* normalized text, and between one chunk and the next, and after the      *)
(* last, the text holds whitespace only.                                   *)
(***************************************************************************)
C12_ChunksRejoinUpToBoundaryWhitespace ==
    ck_pc = "done" => SpacedOut(ck_chunks, strip(replace_crlf(ck_text)))

\* a call that cut the text in two and trimmed more than one newline between
C12_Witness ==
    /\ ck_pc = "done"
    /\ Len(ck_chunks) >= 2
    /\ strip(join_lines(ck_chunks)) # strip(replace_crlf(ck_text))

(***************************************************************************)
(* C13: every chunk of chunk_text(T, B) has at most B characters, joining  *)
(* newlines counted, unless it is a single source line longer than B.      *)
(***************************************************************************)
C13_ChunkWithinBound ==
    ck_pc = "done" =>
        \A i \in 1..Len(ck_chunks) :
            \/ Len(ck_chunks[i]) <= ck_max_chars
            \/ \A j \in 1..Len(ck_chunks[i]) : ck_chunks[i][j] # "\n"

(***************************************************************************)
(* C14: chunk_text never returns an empty string as a chunk, and a text    *)
(* that is empty or whitespace only gives the empty sequence.              *)
(***************************************************************************)
C14_NoEmptyChunk ==
    ck_pc = "done" =>
        /\ \A i \in 1..Len(ck_chunks) : ck_chunks[i] # <<>>
        /\ strip(ck_text) = <<>> => ck_chunks = <<>>

\* the formatted pieces of what the query returned, in the order returned
Pieces == [i \in 1..Len(ac_results) |-> format_piece(ac_results[i].doc, ac_results[i].meta)]

\* the length of the first n pieces together
RECURSIVE CumLen(_, _)
CumLen(ps, n) == IF n = 0 THEN 0 ELSE CumLen(ps, n - 1) + Len(ps[n])

(***************************************************************************)
(* C15: retrieve_context selects exactly the longest prefix of the         *)
(* returned results whose formatted pieces together have at most max_chars *)
(* characters: it stops at the first piece that would go over and takes no *)
(* later piece, even one that would fit.                                   *)
(***************************************************************************)
C15_SelectsLongestFittingPrefix ==
    ac_pc = "done" =>
        LET n == Len(context_chunks)
        IN  /\ n <= Len(Pieces)
            /\ context_chunks = SubSeq(Pieces, 1, n)
            /\ CumLen(Pieces, n) <= ac_max_chars
            /\ n < Len(Pieces) => CumLen(Pieces, n + 1) > ac_max_chars

\* the second piece went over; the third would have fitted and was not taken
C15_Witness ==
    /\ ac_pc = "done"
    /\ Len(ac_results) = 3
    /\ Len(context_chunks) = 1
    /\ Len(Pieces[1]) + Len(Pieces[3]) <= ac_max_chars

(***************************************************************************)
(* C16: retrieve_context returns the empty string exactly when no piece    *)
(* fits, that is when the query returned nothing or the first piece alone  *)
(* is longer than max_chars; otherwise it returns the fixed header         *)
(* followed by the selected pieces joined by a blank line.                 *)
(***************************************************************************)
C16_EmptyIffNothingFits ==
    ac_pc = "done" =>
        /\ ac_context = <<>> <=>
               (ac_results = <<>> \/ Len(Pieces[1]) > ac_max_chars)
        /\ ac_context # <<>> =>
               /\ SubSeq(ac_context, 1, Len(header)) = header
               /\ SubSeq(ac_context, Len(header) + 1, Len(ac_context))
                      = join_blank(context_chunks)

\* the query returned three results and the first alone is over the budget
C16_Witness ==
    /\ ac_pc = "done"
    /\ Len(ac_results) = 3
    /\ ac_max_chars > 0
    /\ ac_context = <<>>

(***************************************************************************)
(* C17 as stated: the string retrieve_context returns, header and          *)
(* separators included, is never longer than max_chars.                    *)
(***************************************************************************)
C17_ContextWithinBudget ==
    ac_pc = "done" => Len(ac_context) <= ac_max_chars

(***************************************************************************)
(* C17 amended: the budget caps the selected pieces, not the block: a      *)
(* returned block of n pieces has at most max_chars characters beyond its  *)
(* header and its n - 1 two-character separators.                          *)
(***************************************************************************)
C17_PiecesWithinBudget ==
    (ac_pc = "done" /\ ac_context # <<>>) =>
        Len(ac_context) - Len(header) - 2 * (Len(context_chunks) - 1) <= ac_max_chars

\* a block whose pieces fill the budget to the last character
C17_Witness ==
    /\ ac_pc = "done"
    /\ Len(context_chunks) >= 2
    /\ Len(ac_context) - Len(header) - 2 * (Len(context_chunks) - 1) = ac_max_chars

(***************************************************************************)
(* C18: in a rebuild, a failure of model.encode or of collection.add ends  *)
(* the run: the step that fails writes nothing, the run goes past an add   *)
(* only with the ids of the batch in the collection, past an encode only   *)
(* to the add of the same batch, and a failed run takes no further step    *)
(* (no later batch, no "Index build complete") until build_index is        *)
(* started again.                                                          *)
(***************************************************************************)
C18_RebuildFailureAborts ==
    [][ /\ rb_pc = "encode" => rb_pc' \in {"encode", "add", "failed"}
        /\ (rb_pc = "add" /\ rb_pc' \notin {"add", "failed"}) =>
               \A i \in 1..Len(rb_ids) : rb_ids[i] \in StoreIds(store')
        /\ (rb_pc # "failed" /\ rb_pc' = "failed") => store' = store
        /\ rb_pc = "failed" =>
               /\ rb_pc' \in {"failed", "delete"}
               /\ rb_pc' = "failed" => store' = store ]_vars

\* a second batch failed after the first was added: its ids are not in the store
C18_Witness ==
    /\ rb_pc = "failed"
    /\ Bulk(store) # {}
    /\ rb_ids # <<>>
    /\ \A i \in 1..Len(rb_ids) : rb_ids[i] \notin StoreIds(store)

\* the export partition as one rebuild of the export e leaves it
PartitionOf(e) ==
    LET cs == all_chunks(iter_chatgpt_messages(e))
    IN  {BulkEntry(k - 1, cs[k]) : k \in 1..Len(cs)}

(***************************************************************************)
(* C19: the export partition a query can see, or a rebuild leaves behind   *)
(* when it fails part-way, is never partial: in every state it is the      *)
(* complete set of chunks of one rebuild of one export.                    *)
(***************************************************************************)
C19_PartitionNeverPartial ==
    \E e \in Exports : Bulk(store) = PartitionOf(e)

(***************************************************************************)
(* C20: in every chat entry point a failure to append the interaction      *)
(* record does not abort the turn: the step that logs, failing or not,     *)
(* leads to the return of the reply and never to an abort; a failure shows *)
(* as a warning only, and the turn that warned still hands the reply to    *)
(* its caller.                                                             *)
(***************************************************************************)
C20_LogFailureNeverAborts ==
    /\ [][ /\ chat_pc = "log" => chat_pc' \in {"log", "return"}
           /\ chat_pc = "return" => chat_pc' \in {"return", "replied"}
           /\ (warned' /\ ~warned) => chat_pc = "log" ]_vars
    /\ [](chat_pc = "replied" => reply = "answer")
    /\ [](warned => chat_pc \in {"return", "replied"})

\* a server turn whose log write failed and whose reply was returned
C20_Witness ==
    /\ chat_pc = "replied"
    /\ warned
    /\ reply = "answer"
    /\ entry = "router_openai"

(***************************************************************************)
(* C21: a cursor file that exists and cannot be read or parsed does not    *)
(* let an ingest run go on: while the file is unreadable no run is past    *)
(* its start, so no run restarts silently at line 0.                       *)
(***************************************************************************)
C21_UnreadableCursorIsFatal ==
    state_file.kind = "corrupt" => ing_pc \in {"idle", "failed"}

\* every value the loader asks of the file has the type of one of the two shapes
WellFormed(f) ==
    \/ f.json = "dict" /\ f.mapping = "dict"
         /\ \A i \in 1..Len(f.nodes) : ~node_raises(f.nodes[i])
    \/ f.json = "list"
         /\ \A i \in 1..Len(f.convs) :
               /\ f.convs[i].conv = "dict"
               /\ f.convs[i].mapping # "other"
               /\ \A j \in 1..Len(f.convs[i].nodes) : ~node_raises(f.convs[i].nodes[j])

\* the texts of the well-formed files among fs, in order
RECURSIVE WellFormedTexts(_)
WellFormedTexts(fs) ==
    IF fs = <<>> THEN <<>>
    ELSE (IF WellFormed(Head(fs))
          THEN iter_files(<<Head(fs)>>, [yielded |-> <<>>, warned |-> 0, raised |-> FALSE]).yielded
          ELSE <<>>) \o WellFormedTexts(Tail(fs))

(***************************************************************************)
(* C22: reading an export root never raises: a file that cannot be parsed  *)
(* or has neither shape, ill-typed values included, is passed over, the    *)
(* texts of every well-formed file read are yielded, and a root with no    *)
(* usable file yields nothing.                                             *)
(***************************************************************************)
C22_LoaderNeverAborted ==
    ld_pc = "done" =>
        /\ ~ld_out.raised
        /\ ld_out.yielded = WellFormedTexts(select_files(export_dir))

(***************************************************************************)
(* C23: after an ingest run that completes, each line it read beyond the   *)
(* cursor that is a record with a non-empty prompt or reply has exactly    *)
(* one entry, every other line it read has none, and the run added         *)
(* nothing else.                                                           *)
(***************************************************************************)
C23_EntriesMatchKeptLines ==
    ing_pc = "done" =>
        /\ \A n \in NewLines :
              IF log[n] = "kept"
              THEN /\ LiveEntry(n) \in store
                   /\ Cardinality({e \in store : e.id = <<"live-cli", n>>}) = 1
              ELSE <<"live-cli", n>> \notin StoreIds(store)
        /\ Live(store) \ live0 \subseteq
              {LiveEntry(n) : n \in {k \in NewLines : log[k] = "kept"}}

\* a run completed over a record with content and a record with two empty fields
C23_Witness ==
    /\ ing_pc = "done"
    /\ \E n \in NewLines : log[n] = "kept" /\ LiveEntry(n) \in store \ live0
    /\ \E n \in NewLines : log[n] = "empty"

(***************************************************************************)
(* C24: in every entry point, once the prompt is ready for the model, it   *)
(* is wrapped around the retrieved context exactly when the assembled      *)
(* context is non-empty and is the user's prompt unchanged otherwise; the  *)
(* used_rag flag, and the record the turn logs, say true exactly when the  *)
(* context is non-empty, and the record holds the prompt that was sent.    *)
(***************************************************************************)
C24_WrappedIffContext ==
    chat_pc \in {"call", "log", "return", "replied"} =>
        /\ final_user_message.wrapped <=> chat_context # <<>>
        /\ final_user_message.context = chat_context
        /\ used_rag_flag <=> chat_context # <<>>
        /\ logged # <<>> =>
              /\ logged[1].used_rag <=> chat_context # <<>>
              /\ logged[1].sent_prompt = final_user_message

\* a turn of the endpoint that always retrieves got an empty context and was logged
C24_Witness ==
    /\ chat_pc = "replied"
    /\ entry = "router_openai"
    /\ chat_context = <<>>
    /\ logged # <<>>
    /\ ~logged[1].used_rag

C26_DeleteFailureTolerated ==
    /\ [][(deleteFailed' /\ ~deleteFailed) => (rb_pc' = "load" /\ store' = store)]_vars
    /\ [](deleteFailed => rb_pc # "delete")
    /\ []((rb_pc = "done" /\ deleteFailed) =>
             /\ doc_id = Len(rb_export)
             /\ \A k \in 0..(Len(rb_export) - 1) : <<"chatgpt", k>> \in StoreIds(store))

\* a rebuild whose delete failed has returned after adding the chunks of its export
C26_Witness ==
    /\ rb_pc = "done"
    /\ deleteFailed
    /\ Len(rb_export) > REBUILD_BATCH
    /\ \A k \in 0..(Len(rb_export) - 1) : <<"chatgpt", k>> \in StoreIds(store)

\* the lines of the normalized text of the call
SourceLines == split_lines(strip(replace_crlf(ck_text)), <<>>)

(***************************************************************************)
(* C27: a line longer than max_chars is never split and never shares a     *)
(* chunk with the line before or after it, wherever it stands: it is       *)
(* emitted, trimmed like every chunk, as a chunk of its own, and no chunk  *)
(* of several lines holds a line longer than max_chars.                    *)
(***************************************************************************)
C27_LongLineIsOwnChunk ==
    ck_pc = "done" =>
        /\ \A i \in 1..Len(SourceLines) :
              Len(SourceLines[i]) > ck_max_chars =>
                  \E j \in 1..Len(ck_chunks) : ck_chunks[j] = strip(SourceLines[i])
        /\ \A j \in 1..Len(ck_chunks) :
              LET ls == split_lines(ck_chunks[j], <<>>)
              IN  Len(ls) > 1 => \A k \in 1..Len(ls) : Len(ls[k]) <= ck_max_chars

\* an over-long line stood between two other lines and came out alone
C27_Witness ==
    /\ ck_pc = "done"
    /\ Len(SourceLines) = 3
    /\ Len(SourceLines[2]) > ck_max_chars
    /\ Len(ck_chunks) = 3
    /\ ck_chunks[2] = SourceLines[2]

(***************************************************************************)
(* C28: a rebuild and an ingest run do not disturb each other, whatever    *)
(* the interleaving of their steps: at each point of the ingest run the    *)
(* live partition is what the run found plus what it has flushed so far,   *)
(* and at its end the cursor is the one it computed; at each point of the  *)
(* rebuild (its delete having succeeded) the export partition is the       *)
(* chunks it has added so far, and at its end all the chunks it loaded:    *)
(* the same as when each runs alone, one after the other.                  *)
(***************************************************************************)
C28_InterleavingEqualsSequential ==
    /\ ing_pc \in {"scan", "encode", "add"} =>
          Live(store) = live0 \cup {LiveEntry(n) : n \in FlushedLines}
    /\ ing_pc \in {"save", "done"} =>
          Live(store) = live0 \cup {LiveEntry(n) : n \in {k \in NewLines : log[k] = "kept"}}
    /\ ing_pc = "done" => Persisted = new_last_line
    /\ (rb_pc \in {"load", "chunk", "encode", "add"} /\ ~deleteFailed) =>
          Bulk(store) = {BulkEntry(k - 1, rb_export[k]) : k \in 1..(doc_id - Len(rb_ids))}
    /\ (rb_pc = "done" /\ ~deleteFailed) =>
          Bulk(store) = {BulkEntry(k - 1, rb_export[k]) : k \in 1..Len(rb_export)}

\* both runs are between their first and their second flush at the same time
C28_Witness ==
    /\ ing_pc = "add"
    /\ FlushedLines # {}
    /\ rb_pc = "add"
    /\ doc_id > Len(rb_ids)
    /\ ~deleteFailed
    /\ Bulk(store) # {}
    /\ Live(store) # live0

(***************************************************************************)
(* C29: with lines appended to the log at any moment, a run that completes *)
(* leaves exactly one entry for every line with content up to the last     *)
(* line it read (every line appended before it started is among them), and *)
(* no write of the cursor puts it beyond the last line the scan has read.  *)
(***************************************************************************)
C29_NoAppendLostOrDuplicated ==
    /\ [](ing_pc = "done" =>
             \A n \in 1..pos :
                 log[n] = "kept" =>
                     Cardinality({e \in store : e.id = <<"live-cli", n>>}) = 1)
    /\ [][(state_file' # state_file /\ state_file'.kind = "ok")
             => state_file'.last_line <= pos]_vars
    /\ [](ing_pc = "done" => Persisted <= pos)

\* a line was appended after the scan had reached the end of the log, and
\* the completed run left the cursor before it
C29_Witness ==
    /\ ing_pc = "done"
    /\ Len(log) > pos
    /\ pos > last_line
    /\ Persisted = pos
    /\ \A n \in 1..pos : log[n] = "kept"

(***************************************************************************)
(* C30: no line of the log ends an ingest run: the step that reads a line, *)
(* whatever the line holds, does not fail the run.                         *)
(***************************************************************************)
C30_NoLineFailsTheRun ==
    [][(ing_pc = "scan" /\ pos' = pos + 1) => ing_pc' # "failed"]_vars
====
